---------------------------- MODULE Spec2Model ----------------------------
(***************************************************************************)
(* Sidecar provisioning and supervised execution.                          *)
(*                                                                         *)
(*   src/buildpack/telemetry/metering.py   Bundle Stager (stage), Install  *)
(*                                         Verifier, Supervisor (run)      *)
(*   src/custom-sidecar/sidecar.py         Credential Resolver, Database   *)
(*                                         Probe, Poll Loop                *)
(*                                                                         *)
(* Exceptions are modelled as values: an operation returns the kind of the *)
(* exception that leaves it ("none" when it returns normally) and every    *)
(* try/except of the code is a test of that kind against the handler.      *)
(***************************************************************************)
EXTENDS Integers, Sequences, FiniteSets, TLC

VARIABLES
    \* ---- build and start phases (metering.py)
    env,        \* os.environ as seen by stage()/run(): the enablement variables
    src,        \* <buildpack_dir>/custom-sidecar, the bundle source
    target,     \* <build_path>/metering at stage time = /home/vcap/app/metering at run time
    meta,       \* <build_path>/model/metadata.json
    procs,      \* number of sidecar processes spawned so far by run()
    last,       \* what the last call did (observation only, never read by the code)
    \* ---- the spawned sidecar process (sidecar.py)
    cat,        \* VCAP_SERVICES of the sidecar process
    pc,         \* where the process is
    iteration,  \* main(): iteration
    pipe,       \* the stdout pipe run() created and nobody reads: "room" or "full"
    conn,       \* get_data_from_db(): conn of this iteration
    data,       \* get_data_from_db(): users_data
    obs         \* what this iteration did so far (observation only)

stagevars == <<env, src, target, meta, procs, last>>
loopvars == <<cat, pc, iteration, pipe, conn, data, obs>>
vars == <<env, src, target, meta, procs, last, cat, pc, iteration, pipe, conn, data, obs>>

-----------------------------------------------------------------------------
(* Bounds of the model *)

\* run() calls followed until this many processes were spawned
MaxProcs == 1

-----------------------------------------------------------------------------
(* Exceptions *)

NoExc == "none"

\* kinds an `except Exception` clause catches (KeyboardInterrupt is a
\* BaseException and is not one of them)
ExceptionKinds == {"Exception", "OSError", "JSONDecodeError", "KeyError",
                   "TypeError", "ValueError", "dbapi.Error"}

CaughtByExceptException(kind) == kind \in ExceptionKinds

\* the exception that leaves `try: <body> except Exception: <log>`
TryExceptException(kind) == IF CaughtByExceptException(kind) THEN NoExc ELSE kind

-----------------------------------------------------------------------------
(* The service-binding catalog: the value of VCAP_SERVICES *)

\* JSON values of a credentials object; strings are sequences of characters
JMissing == [ty |-> "missing", s |-> <<>>, n |-> 0]    \* the key is not there
JNull    == [ty |-> "null",    s |-> <<>>, n |-> 0]
JStr(s)  == [ty |-> "str",     s |-> s,    n |-> 0]
JNum(n)  == [ty |-> "num",     s |-> <<>>, n |-> n]

CredFields == {"host", "port", "user", "password"}

\* a binding record: with or without a "credentials" object
Binding(creds) == [hasCreds |-> TRUE, creds |-> creds]
NoCredsBinding == [hasCreds |-> FALSE, creds |-> [f \in CredFields |-> JMissing]]

\* VCAP_SERVICES: unset, the empty string, a string json.loads rejects, or a
\* JSON object mapping service kinds to sequences of binding records
\* (`hasHana`: the object has the key "hana"; `hana`: its value)
VcapAbsent  == [t |-> "absent",  hasHana |-> FALSE, hana |-> <<>>]
VcapEmpty   == [t |-> "empty",   hasHana |-> FALSE, hana |-> <<>>]
VcapInvalid == [t |-> "invalid", hasHana |-> FALSE, hana |-> <<>>]
VcapNoHana  == [t |-> "object",  hasHana |-> FALSE, hana |-> <<>>]
VcapHana(bindings) == [t |-> "object", hasHana |-> TRUE, hana |-> bindings]

Creds(host, port, user, password) ==
    [f \in CredFields |->
        CASE f = "host" -> host [] f = "port" -> port
          [] f = "user" -> user [] OTHER -> password]

\* {"host":"db","port":<port>,"user":"u","password":"p"}
GoodCreds(port) == Creds(JStr(<<"d", "b">>), port, JStr(<<"u">>), JStr(<<"p">>))
OtherCreds == Creds(JStr(<<"x">>), JNum(1), JStr(<<"x">>), JStr(<<"x">>))

Port30015 == JStr(<<"3", "0", "0", "1", "5">>)

-----------------------------------------------------------------------------
(* The environment of stage() and run() *)

StageVcaps == {VcapAbsent, VcapInvalid, VcapNoHana,
               VcapHana(<<Binding(GoodCreds(Port30015))>>)}

Envs == [vcap : StageVcaps, mxums : BOOLEAN, flag : BOOLEAN]

\* json.loads(os.environ["VCAP_SERVICES"]) followed by `"hana" in vcap_services`:
\* the exception kind, and the value of the membership test
vcap_has_hana(vcap) ==
    IF vcap.t \in {"invalid", "empty"} THEN [exc |-> "JSONDecodeError", val |-> FALSE]
    ELSE [exc |-> NoExc, val |-> vcap.hasHana]

\* an enablement check that takes any parseable VCAP_SERVICES for a HANA binding
is_usage_metering_enabled_anyvcap(e) ==
    IF e.vcap.t = "object" THEN TRUE
    ELSE IF e.mxums THEN TRUE
    ELSE IF e.flag THEN TRUE
    ELSE FALSE

\* an enablement check whose parse handler gives up: `except: return False`
is_usage_metering_enabled_parse_fatal(e) ==
    LET r == IF e.vcap.t # "absent" THEN vcap_has_hana(e.vcap)
             ELSE [exc |-> NoExc, val |-> FALSE]
    IN  IF r.exc # NoExc THEN FALSE
        ELSE IF r.val THEN TRUE
        ELSE IF e.mxums THEN TRUE
        ELSE IF e.flag THEN TRUE
        ELSE FALSE

\* _is_usage_metering_enabled()
is_usage_metering_enabled(e) ==
    LET viaVcap ==
            IF e.vcap.t # "absent"
            THEN LET r == vcap_has_hana(e.vcap)
                 IN  \* an exception of the parse is caught and logged (line 140)
                     IF TryExceptException(r.exc) = NoExc /\ r.exc = NoExc
                     THEN r.val ELSE FALSE
            ELSE FALSE
    IN  IF viaVcap THEN TRUE
        ELSE IF e.mxums THEN TRUE
        ELSE IF e.flag THEN TRUE
        ELSE FALSE

-----------------------------------------------------------------------------
(* The filesystem *)

BINARY == "sidecar.py"
SIDECAR_CONFIG_FILE == "conf.json"
VENDOR == "vendor"
HIDDEN_FILE == ".DS_Store"

Names == {BINARY, VENDOR, SIDECAR_CONFIG_FILE, HIDDEN_FILE}

\* item.startswith('.')
IsHidden(name) == name \in {HIDDEN_FILE}

\* entries a directory of the bundle may hold
ChildNames == {"hdbcli", "old"}

NoContent == [t |-> "none", v |-> 0]
Blob(v)   == [t |-> "blob", v |-> v]       \* file bytes, version v
Cfg(pid)  == [t |-> "cfg",  v |-> pid]     \* the JSON document {"ProjectID": pid}
\* what open(.., "w"/"wb") left when the write after it failed: no bytes, or
\* the first ones only
Truncated == [t |-> "truncated", v |-> 0]

NoNode == [k |-> "none", c |-> NoContent, m |-> "-", ch |-> {}]
FileNode(c, m) == [k |-> "file", c |-> c, m |-> m, ch |-> {}]
DirNode(ch) == [k |-> "dir", c |-> NoContent, m |-> "-", ch |-> ch]

\* os.path.exists, os.path.isdir
Exists(node) == node.k # "none"
IsDir(node) == node.k = "dir"

EmptyItems == [n \in Names |-> NoNode]
NoDirectory == [exists |-> FALSE, items |-> EmptyItems]

\* the bundle sources considered: no custom-sidecar directory at all, or one with
\* any combination of entry script, vendor directory (empty or not), a conf.json
\* of its own, and always a hidden file
SrcItemOptions(n) ==
    CASE n = BINARY -> {NoNode, FileNode(Blob(1), "0644")}
      [] n = VENDOR -> {NoNode, DirNode({}), DirNode({"hdbcli"})}
      [] n = SIDECAR_CONFIG_FILE -> {NoNode, FileNode(Blob(1), "0644")}
      [] OTHER -> {FileNode(Blob(1), "0644")}

Sources ==
    {NoDirectory} \cup
    {[exists |-> TRUE, items |-> it] :
        it \in {f \in [Names -> UNION {SrcItemOptions(n) : n \in Names}] :
                    \A n \in Names : f[n] \in SrcItemOptions(n)}}

\* what the target directory may hold before the first call: nothing, an empty
\* directory, or leftovers of an older install (a stale script, a stale vendor
\* directory, or a whole stale install with its config file)
StaleItems(ns) ==
    [n \in Names |->
        IF n \notin ns THEN NoNode
        ELSE CASE n = BINARY -> FileNode(Blob(0), "0644")
               [] n = VENDOR -> DirNode({"old"})
               [] OTHER -> FileNode(Cfg(0), "0644")]

InitialTargets ==
    {NoDirectory} \cup
    {[exists |-> TRUE, items |-> StaleItems(ns)] :
        ns \in {{}, {BINARY}, {VENDOR}, {BINARY, VENDOR, SIDECAR_CONFIG_FILE}}}

\* model/metadata.json: missing (IOError), without "ProjectID" (KeyError), or
\* holding a ProjectID
MetaMissing == [t |-> "missing", pid |-> 0]
MetaNoKey   == [t |-> "nokey",   pid |-> 0]
MetaOk(p)   == [t |-> "ok",      pid |-> p]
Metas == {MetaMissing, MetaNoKey, MetaOk(1)}

-----------------------------------------------------------------------------
(* Failures of the environment: which operating-system call of one stage()  *)
(* or run() call fails.  At most one call fails per stage()/run().          *)

Fault(p, n, mk, got) == [p |-> p, n |-> n, mk |-> mk, got |-> got]

\* the calls a stage() in this state makes and that may fail
StageFaultPoints(e, s, tgt) ==
    IF ~(is_usage_metering_enabled(e) /\ s.exists) THEN {}
    ELSE
    {Fault("listdir", "-", FALSE, {}), Fault("makedirs", "-", FALSE, {})}
    \* write_file fails in open() (mk = FALSE) or, the file created or
    \* truncated by open(), in json.dump or the closing flush (mk = TRUE)
    \cup {Fault("write", "-", mk, {}) : mk \in BOOLEAN}
    \cup {Fault("chmod", "-", FALSE, {}) :
            x \in {n \in {BINARY} : Exists(s.items[n]) \/ Exists(tgt.items[n])}}
    \* copy2 fails before it opened the target (mk = FALSE), while writing to
    \* the target it opened (mk = TRUE, got = {}), or in copystat after the
    \* bytes were copied (mk = TRUE, got = {"data"})
    \cup {Fault("copy2", n, FALSE, {}) :
            n \in {x \in {BINARY, SIDECAR_CONFIG_FILE} : Exists(s.items[x])}}
    \cup {Fault("copy2", n, TRUE, got) :
            n \in {x \in {BINARY, SIDECAR_CONFIG_FILE} : Exists(s.items[x])},
            got \in {{}, {"data"}}}
    \* rmtree fails at once (every entry is still there) or at the end (the
    \* entries are gone, the directory is not)
    \cup {Fault("rmtree", n, FALSE, keep) :
            n \in {x \in {VENDOR} : Exists(s.items[x]) /\ Exists(tgt.items[x])},
            keep \in {{}, ChildNames}}
    \* copytree fails before creating the directory (mk = FALSE) or after
    \* creating it and copying the entries `got`
    \cup {Fault("copytree", n, mk, got) :
            n \in {x \in {VENDOR} : Exists(s.items[x])},
            mk \in BOOLEAN, got \in {{}, ChildNames}}

RunFaultPoints ==
    {Fault("get_config", "-", FALSE, {}), Fault("Popen", "-", FALSE, {})}

NoFaults == {}
StageFaults(e, s, tgt) == {NoFaults} \cup {{f} : f \in StageFaultPoints(e, s, tgt)}
RunFaults == {NoFaults} \cup {{f} : f \in RunFaultPoints}

Fails(F, p, n) == \E f \in F : f.p = p /\ f.n = n
TheFault(F, p, n) == CHOOSE f \in F : f.p = p /\ f.n = n

\* os.listdir(source_dir): the entries of the source in an order of the
\* filesystem's choosing.  Hidden entries are skipped wherever they stand
\* (line 48), so only the orders of the others are told apart.
Listed(s) == {n \in Names : Exists(s.items[n])}

RECURSIVE Perms(_)
Perms(S) ==
    IF S = {} THEN {<<>>}
    ELSE UNION {{<<x>> \o p : p \in Perms(S \ {x})} : x \in S}

\* the orders of every set of names, hidden ones first
OrdersOf ==
    [S \in SUBSET Names |->
        UNION {{h \o p : p \in Perms({n \in S : ~IsHidden(n)})} :
                    h \in Perms({n \in S : IsHidden(n)})}]

\* The loop stops early only when the vendor copy fails (line 91); in every
\* other call each listed entry is copied on its own and the result does not
\* depend on the order, so one order stands for all of them.
Orders(s, F) ==
    IF \E f \in F : f.n = VENDOR THEN OrdersOf[Listed(s)]
    ELSE {CHOOSE o \in OrdersOf[Listed(s)] : TRUE}

-----------------------------------------------------------------------------
(* Bundle Stager: _copy_custom_sidecar *)

\* shutil.rmtree(target_item): [node, exc]
rmtree(node, F, name) ==
    IF ~IsDir(node) THEN [node |-> node, exc |-> "OSError"]   \* NotADirectoryError
    ELSE IF Fails(F, "rmtree", name)
    THEN [node |-> DirNode(node.ch \cap TheFault(F, "rmtree", name).got),
          exc |-> "OSError"]
    ELSE [node |-> NoNode, exc |-> NoExc]

\* shutil.copytree(source_item, target_item), target_item not existing: [node, exc]
copytree(srcNode, F, name) ==
    IF Fails(F, "copytree", name)
    THEN LET f == TheFault(F, "copytree", name)
         IN  [node |-> IF f.mk THEN DirNode(srcNode.ch \cap f.got) ELSE NoNode,
              exc |-> "OSError"]
    ELSE [node |-> DirNode(srcNode.ch), exc |-> NoExc]

\* the mode of a file after open(.., "w"/"wb"): the one it had, or for a new
\* file 0666 & ~umask (umask 022)
OpenedMode(node) == IF Exists(node) THEN node.m ELSE "0644"

\* shutil.copy2(source_item, target_item), target_item no directory:
\* copyfile (open the target "wb", copy the bytes), then copystat (the mode)
copy2(srcNode, tgtNode, F, name) ==
    IF Fails(F, "copy2", name)
    THEN LET f == TheFault(F, "copy2", name)
         IN  [node |-> IF ~f.mk THEN tgtNode
                       ELSE IF f.got = {} THEN FileNode(Truncated, OpenedMode(tgtNode))
                       ELSE FileNode(srcNode.c, OpenedMode(tgtNode)),
              exc |-> "OSError"]
    ELSE [node |-> FileNode(srcNode.c, srcNode.m), exc |-> NoExc]

\* a copy whose copytree sits in the else branch of `if os.path.exists(target_item)`
CopyItem_else(tgtNode, srcNode, F, name) ==
    IF IsDir(srcNode)
    THEN IF Exists(tgtNode) THEN rmtree(tgtNode, F, name)
         ELSE copytree(srcNode, F, name)
    ELSE copy2(srcNode, tgtNode, F, name)

\* lines 60-85, the body of the per-item try: [node, exc]
CopyItem(tgtNode, srcNode, F, name) ==
    IF IsDir(srcNode)
    THEN LET rm == IF Exists(tgtNode) THEN rmtree(tgtNode, F, name)
                   ELSE [node |-> tgtNode, exc |-> NoExc]
         IN  IF rm.exc # NoExc THEN rm ELSE copytree(srcNode, F, name)
    ELSE copy2(srcNode, tgtNode, F, name)

\* lines 47-92, the loop over source_contents from position i on:
\* [items, aborted], aborted when the vendor copy failed (line 89-91)
RECURSIVE CopyLoop(_, _, _, _, _)
CopyLoop(items, srcItems, order, i, F) ==
    IF i > Len(order) THEN [items |-> items, aborted |-> FALSE]
    ELSE LET item == order[i] IN
         IF IsHidden(item)      \* line 48: skipped
         THEN CopyLoop(items, srcItems, order, i + 1, F)
         ELSE LET r == CopyItem(items[item], srcItems[item], F, item)
                  done == [items EXCEPT ![item] = r.node]
              IN  \* except Exception (line 86): log, abort for vendor, else go on
                  IF CaughtByExceptException(r.exc) /\ item = VENDOR
                  THEN [items |-> done, aborted |-> TRUE]
                  ELSE CopyLoop(done, srcItems, order, i + 1, F)

\* os.chmod(sidecar_script, 0o755) when the script exists (lines 95-100)
chmod_binary(items, F) ==
    IF Exists(items[BINARY])
    THEN IF Fails(F, "chmod", "-") THEN [items |-> items, exc |-> "OSError"]
         ELSE [items |-> [items EXCEPT ![BINARY].m = "0755"], exc |-> NoExc]
    ELSE [items |-> items, exc |-> NoExc]

\* a copy that creates the target directory before it looks for the source
copy_custom_sidecar_mkdir_first(s, tgt, F, order) ==
    LET made == [tgt EXCEPT !.exists = TRUE]
    IN  IF ~s.exists THEN [target |-> made, ok |-> FALSE]
        ELSE IF Fails(F, "listdir", "-") THEN [target |-> made, ok |-> FALSE]
        ELSE LET loop == CopyLoop(made.items, s.items, order, 1, F)
                 ch == chmod_binary(loop.items, F)
             IN  IF loop.aborted
                 THEN [target |-> [made EXCEPT !.items = loop.items], ok |-> FALSE]
                 ELSE [target |-> [made EXCEPT !.items = ch.items],
                       ok |-> ~CaughtByExceptException(ch.exc)]

\* _copy_custom_sidecar(buildpack_dir, build_path): [target, ok]
copy_custom_sidecar(s, tgt, F, order) ==
    IF ~s.exists THEN [target |-> tgt, ok |-> FALSE]
    ELSE IF Fails(F, "listdir", "-") THEN [target |-> tgt, ok |-> FALSE]
    ELSE IF Fails(F, "makedirs", "-") THEN [target |-> tgt, ok |-> FALSE]
    ELSE LET made == [tgt EXCEPT !.exists = TRUE]
             loop == CopyLoop(made.items, s.items, order, 1, F)
         IN  IF loop.aborted
             THEN [target |-> [made EXCEPT !.items = loop.items], ok |-> FALSE]
             ELSE LET ch == chmod_binary(loop.items, F)
                  IN  [target |-> [made EXCEPT !.items = ch.items],
                       \* an exception of chmod reaches line 122: return False
                       ok |-> ~CaughtByExceptException(ch.exc)]

-----------------------------------------------------------------------------
(* Bundle Stager: stage *)

\* _get_project_id(file_path) on the build metadata: [exc, pid]
get_project_id(md) ==
    CASE md.t = "missing" -> [exc |-> "Exception", pid |-> 0]  \* IOError, re-raised
      [] md.t = "nokey"   -> [exc |-> "KeyError", pid |-> 0]
      [] OTHER            -> [exc |-> NoExc, pid |-> md.pid]

\* write_file(<target>/conf.json, {"ProjectID": pid}): open(.., "w") creates
\* or truncates the file and keeps the mode of one that is already there
write_file(items, pid, F) ==
    LET old == items[SIDECAR_CONFIG_FILE]
    IN  IF Fails(F, "write", "-")
        THEN [items |-> IF TheFault(F, "write", "-").mk
                        THEN [items EXCEPT ![SIDECAR_CONFIG_FILE] =
                                            FileNode(Truncated, OpenedMode(old))]
                        ELSE items,
              exc |-> "Exception"]
        ELSE [items |-> [items EXCEPT ![SIDECAR_CONFIG_FILE] =
                                        FileNode(Cfg(pid), OpenedMode(old))],
              exc |-> NoExc]

\* lines 276-288: derive the ProjectID and write the config, best effort
write_config(tgt, md, F) ==
    LET p == get_project_id(md)
        w == IF p.exc # NoExc THEN [items |-> tgt.items, exc |-> p.exc]
             ELSE write_file(tgt.items, p.pid, F)
    IN  [target |-> [tgt EXCEPT !.items = w.items], exc |-> TryExceptException(w.exc)]

\* a stage() whose handlers are missing: what leaves the config step leaves stage()
stage_unguarded(e, s, tgt, md, F, order) ==
    LET enabled == is_usage_metering_enabled(e)
        cp == copy_custom_sidecar(s, tgt, F, order)
        p == get_project_id(md)
        w == IF p.exc # NoExc THEN [items |-> cp.target.items, exc |-> p.exc]
             ELSE write_file(cp.target.items, p.pid, F)
    IN  IF ~enabled
        THEN [target |-> tgt, raised |-> NoExc, enabled |-> FALSE, success |-> FALSE]
        ELSE IF ~cp.ok
        THEN [target |-> cp.target, raised |-> NoExc, enabled |-> TRUE, success |-> FALSE]
        ELSE [target |-> [cp.target EXCEPT !.items = w.items], raised |-> w.exc,
              enabled |-> TRUE, success |-> TRUE]

\* stage(buildpack_path, build_path, cache_dir):
\* [target, raised (the exception reaching the caller), enabled, success]
stage(e, s, tgt, md, F, order) ==
    LET enabled == is_usage_metering_enabled(e)
        cp == copy_custom_sidecar(s, tgt, F, order)      \* _download
        cf == write_config(cp.target, md, F)
    IN  IF ~enabled
        THEN [target |-> tgt, raised |-> NoExc, enabled |-> FALSE, success |-> FALSE]
        ELSE IF ~cp.ok
        THEN [target |-> cp.target, raised |-> NoExc, enabled |-> TRUE, success |-> FALSE]
        ELSE [target |-> cf.target, raised |-> TryExceptException(cf.exc),
              enabled |-> TRUE, success |-> TRUE]

-----------------------------------------------------------------------------
(* Install Verifier and Supervisor *)

\* a verifier that looks for the entry script only
is_sidecar_installed_script_only(tgt) ==
    IF tgt.exists /\ Exists(tgt.items[BINARY]) THEN TRUE ELSE FALSE

\* _is_sidecar_installed() on SIDECAR_DIR
is_sidecar_installed(tgt) ==
    IF tgt.exists /\ Exists(tgt.items[BINARY])
    THEN IF Exists(tgt.items[VENDOR]) THEN TRUE ELSE FALSE
    ELSE FALSE

\* _set_up_environment(): the derived environment of the child; only the parts
\* that come from the state modelled here: [exc, vcap, project_id]
set_up_environment(e, tgt, F) ==
    IF Fails(F, "get_config", "-")
    THEN [exc |-> "Exception", vcap |-> e.vcap, project_id |-> -1]
    ELSE LET cfg == tgt.items[SIDECAR_CONFIG_FILE]
             \* _get_project_id(config_file); a file that is no ProjectID
             \* document raises, which line 218 catches
             pid == IF tgt.exists /\ Exists(cfg) /\ cfg.c.t = "cfg" THEN cfg.c.v ELSE -1
         IN  [exc |-> NoExc, vcap |-> e.vcap, project_id |-> pid]

\* the body of run()'s try: [spawned, exc, enabled, installed]
run_body(e, tgt, F) ==
    LET metering_enabled == is_usage_metering_enabled(e)
        sidecar_installed == is_sidecar_installed(tgt)
        childEnv == set_up_environment(e, tgt, F)
        popen == IF childEnv.exc # NoExc THEN childEnv.exc
                 ELSE IF Fails(F, "Popen", "-") THEN "OSError" ELSE NoExc
    IN  IF metering_enabled /\ sidecar_installed
        THEN [spawned |-> popen = NoExc, exc |-> popen,
              enabled |-> metering_enabled, installed |-> sidecar_installed]
        ELSE [spawned |-> FALSE, exc |-> NoExc,
              enabled |-> metering_enabled, installed |-> sidecar_installed]

\* run(): [spawned, raised, enabled, installed]
run(e, tgt, F) ==
    LET b == run_body(e, tgt, F)
    IN  [spawned |-> b.spawned, raised |-> TryExceptException(b.exc),
         enabled |-> b.enabled, installed |-> b.installed]

-----------------------------------------------------------------------------
(* The build and start phases as a state machine *)

\* the sidecar process is not part of the build and start phases
NoSidecar ==
    /\ cat = VcapAbsent
    /\ pc = "none"
    /\ iteration = 0
    /\ pipe = 0
    /\ conn = "none"
    /\ data = <<>>
    /\ obs = <<>>

Last(op, raised, enabled, success, installed, spawned, faultfree) ==
    [op |-> op, raised |-> raised, enabled |-> enabled, success |-> success,
     installed |-> installed, spawned |-> spawned, faultfree |-> faultfree]

Init ==
    /\ env \in Envs
    /\ src \in Sources
    /\ target \in InitialTargets
    /\ meta \in Metas
    /\ procs = 0
    /\ last = Last("init", NoExc, FALSE, FALSE, FALSE, FALSE, TRUE)
    /\ NoSidecar

\* the build pipeline calls stage()
Stage ==
    \E F \in StageFaults(env, src, target) : \E order \in Orders(src, F) :
        LET r == stage(env, src, target, meta, F, order)
        IN  /\ target' = r.target
            /\ last' = Last("stage", r.raised, r.enabled, r.success, FALSE, FALSE,
                             F = NoFaults)
            /\ UNCHANGED <<env, src, meta, procs>> /\ UNCHANGED loopvars

\* the application start calls run()
Run ==
    /\ procs < MaxProcs
    /\ \E F \in RunFaults :
        LET r == run(env, target, F)
        IN  /\ procs' = IF r.spawned THEN procs + 1 ELSE procs
            /\ last' = Last("run", r.raised, r.enabled, FALSE, r.installed, r.spawned,
                             F = NoFaults)
            /\ UNCHANGED <<env, src, target, meta>> /\ UNCHANGED loopvars

\* the build container and the run container have different environments
ChangeEnv ==
    /\ \E e \in Envs :
        /\ e # env
        \* one variable is set, unset or given another value
        /\ Cardinality({k \in {"vcap", "mxums", "flag"} : e[k] # env[k]}) = 1
        /\ env' = e
    /\ last' = Last("init", NoExc, FALSE, FALSE, FALSE, FALSE, TRUE)
    /\ UNCHANGED <<src, target, meta, procs>>
    /\ UNCHANGED loopvars

Next == Stage \/ Run \/ ChangeEnv

Spec == Init /\ [][Next]_vars

-----------------------------------------------------------------------------
(* Credential Resolver: fetch_vcap_services *)

Digits == <<"0", "1", "2", "3", "4", "5", "6", "7", "8", "9">>
IsDigit(c) == \E d \in DOMAIN Digits : Digits[d] = c
DigitVal(c) == (CHOOSE d \in DOMAIN Digits : Digits[d] = c) - 1

RECURSIVE ParseDigits(_, _, _)
ParseDigits(str, i, acc) ==
    IF i > Len(str) THEN acc
    ELSE ParseDigits(str, i + 1, acc * 10 + DigitVal(str[i]))

\* int(x) for a JSON value: [exc, n].  The strings of the model are digit
\* strings or strings with a letter (no sign, blank or underscore).
py_int(v) ==
    CASE v.ty = "num" -> [exc |-> NoExc, n |-> v.n]
      [] v.ty = "str" ->
            IF Len(v.s) > 0 /\ \A i \in DOMAIN v.s : IsDigit(v.s[i])
            THEN [exc |-> NoExc, n |-> ParseDigits(v.s, 1, 0)]
            ELSE [exc |-> "ValueError", n |-> 0]
      [] OTHER -> [exc |-> "TypeError", n |-> 0]

\* None
NoInfo == [ok |-> FALSE, address |-> JMissing, port |-> 0,
           user |-> JMissing, password |-> JMissing]

\* credentials[f]: a missing key raises KeyError
Subscript(creds, f) ==
    IF creds[f].ty = "missing" THEN [exc |-> "KeyError", val |-> JMissing]
    ELSE [exc |-> NoExc, val |-> creds[f]]

\* a resolver that reads the last binding record, db_array[-1]
fetch_body_last(c) ==
    IF c.t \in {"absent", "empty"} THEN [exc |-> NoExc, info |-> NoInfo]
    ELSE IF c.t = "invalid" THEN [exc |-> "JSONDecodeError", info |-> NoInfo]
    ELSE IF ~c.hasHana THEN [exc |-> NoExc, info |-> NoInfo]
    ELSE IF Len(c.hana) = 0 THEN [exc |-> NoExc, info |-> NoInfo]
    ELSE IF ~c.hana[Len(c.hana)].hasCreds THEN [exc |-> "KeyError", info |-> NoInfo]
    ELSE LET credentials == c.hana[Len(c.hana)].creds
             portInt == py_int(credentials["port"])
         IN  IF \E f \in CredFields : credentials[f].ty = "missing"
             THEN [exc |-> "KeyError", info |-> NoInfo]
             ELSE IF portInt.exc # NoExc THEN [exc |-> portInt.exc, info |-> NoInfo]
             ELSE [exc |-> NoExc,
                   info |-> [ok |-> TRUE, address |-> credentials["host"],
                             port |-> portInt.n, user |-> credentials["user"],
                             password |-> credentials["password"]]]

\* lines 50-87, the body of the try: [exc, info]
fetch_body(c) ==
    IF c.t \in {"absent", "empty"} THEN [exc |-> NoExc, info |-> NoInfo]
    ELSE IF c.t = "invalid" THEN [exc |-> "JSONDecodeError", info |-> NoInfo]
    ELSE IF ~c.hasHana THEN [exc |-> NoExc, info |-> NoInfo]
    ELSE IF Len(c.hana) = 0 THEN [exc |-> NoExc, info |-> NoInfo]
    ELSE IF ~c.hana[1].hasCreds THEN [exc |-> "KeyError", info |-> NoInfo]
    ELSE LET credentials == c.hana[1].creds
             host == Subscript(credentials, "host")
             port == Subscript(credentials, "port")
             user == Subscript(credentials, "user")
             password == Subscript(credentials, "password")
             portInt == py_int(port.val)
         IN  IF host.exc # NoExc THEN [exc |-> host.exc, info |-> NoInfo]
             ELSE IF port.exc # NoExc THEN [exc |-> port.exc, info |-> NoInfo]
             ELSE IF portInt.exc # NoExc THEN [exc |-> portInt.exc, info |-> NoInfo]
             ELSE IF user.exc # NoExc THEN [exc |-> user.exc, info |-> NoInfo]
             ELSE IF password.exc # NoExc THEN [exc |-> password.exc, info |-> NoInfo]
             ELSE [exc |-> NoExc,
                   info |-> [ok |-> TRUE, address |-> host.val, port |-> portInt.n,
                             user |-> user.val, password |-> password.val]]

\* a resolver that reads the credentials with .get(): a missing field is None
fetch_vcap_services_get(c) ==
    IF c.t = "object" /\ c.hasHana /\ Len(c.hana) > 0 /\ c.hana[1].hasCreds
    THEN LET credentials == c.hana[1].creds
             portInt == py_int(credentials["port"])
         IN  [exc |-> NoExc,
              info |-> [ok |-> TRUE, address |-> credentials["host"],
                        port |-> portInt.n, user |-> credentials["user"],
                        password |-> credentials["password"]]]
    ELSE [exc |-> NoExc, info |-> NoInfo]

\* fetch_vcap_services(): [exc, info]; the three except clauses (lines 89-97)
\* return None
fetch_vcap_services(c) ==
    LET b == fetch_body(c)
    IN  IF b.exc = NoExc THEN b
        ELSE [exc |-> TryExceptException(b.exc), info |-> NoInfo]

-----------------------------------------------------------------------------
(* Database Probe and Poll Loop: what the handlers of sidecar.py catch *)

\* line 123: table_variants, in the order tried
table_variants == <<"\"system$user\"", "SYSTEM$USER", "\"SYSTEM$USER\"", "system$user">>

\* rows fetched per query
MaxRows == 2
\* iterations of the loop followed
MaxIter == 3

\* what the database driver does on one call: it works, raises dbapi.Error, or
\* raises something else
CallOutcomes == {"ok", "dbapi.Error", "Exception"}

\* the rows a successful SELECT * FROM <table> returns
Rows(table, n) == [i \in 1..n |-> [table |-> table, row |-> i]]

\* establish_connection: lines 39-44 catch dbapi.Error and Exception and
\* return None; the exception that leaves the function
establish_connection_exc(outcome) ==
    IF outcome = "ok" THEN NoExc
    ELSE IF outcome = "dbapi.Error" THEN NoExc
    ELSE TryExceptException(outcome)

\* the per-variant handler, line 138: except dbapi.Error
variant_exc(outcome) ==
    IF outcome = "dbapi.Error" THEN NoExc ELSE outcome

\* the handlers of get_data_from_db's try, lines 151-156
probe_exc(exc) ==
    IF exc = "dbapi.Error" THEN NoExc ELSE TryExceptException(exc)

\* log_data: line 176, except Exception
log_data_exc(exc) == TryExceptException(exc)

\* main(), lines 221-228: the sleep that follows an iteration whose body let
\* `exc` through to the loop
sleep_after(exc) == IF exc = NoExc THEN 300 ELSE 60

-----------------------------------------------------------------------------
(* The sidecar process: main()'s loop, one action per step of an iteration *)

\* records the child's stdout pipe holds before a write blocks; run() attaches
\* stdout to a pipe (metering.py:316-322) and nothing reads it
PipeCap == 53

\* credentials objects with one required field missing
CredsWithout(f) == [GoodCreds(Port30015) EXCEPT ![f] = JMissing]

Catalogs ==
    {VcapAbsent, VcapEmpty, VcapInvalid, VcapNoHana, VcapHana(<<>>),
     VcapHana(<<NoCredsBinding>>)}
    \cup {VcapHana(<<Binding(CredsWithout(f))>>) : f \in CredFields}
    \cup {VcapHana(<<Binding(GoodCreds(port))>>) :
            port \in {Port30015, JNum(30015), JStr(<<"a">>), JStr(<<>>), JNull}}
    \cup {VcapHana(<<Binding(GoodCreds(Port30015)), Binding(OtherCreds)>>),
          VcapHana(<<NoCredsBinding, Binding(GoodCreds(Port30015))>>)}

\* what the model remembers about the current iteration (and, in prevFail
\* and prevSlept, about the one before)
Obs0 ==
    [info |-> NoInfo, resolveExc |-> NoExc, opened |-> 0, closes |-> 0,
     closeExc |-> NoExc, tried |-> <<>>, fail |-> "none", ret |-> <<>>,
     exc |-> NoExc, slept |-> 0, prevFail |-> "none",
     prevSlept |-> 0, blockedAt |-> "none", intr |-> FALSE, intrAt |-> "none"]

\* logger.info/.warning/.error write to sys.stdout (sidecar.py:6-13).  A step
\* writes `pre` records, takes effect (o1, c1), writes `post` records and goes
\* to `next` with d1 in `data`; a write to the full pipe never returns.
LogStep(pre, post, next, o1, c1, d1) ==
    IF pipe + pre > PipeCap
    THEN /\ pipe' = PipeCap
         /\ pc' = "blocked"
         /\ obs' = [obs EXCEPT !.blockedAt = pc]
         /\ UNCHANGED <<conn, data>>
    ELSE IF pipe + pre + post > PipeCap
    THEN /\ pipe' = PipeCap
         /\ pc' = "blocked"
         /\ obs' = [o1 EXCEPT !.blockedAt = pc]
         /\ conn' = c1
         /\ UNCHANGED data
    ELSE /\ pipe' = pipe + pre + post
         /\ pc' = next
         /\ obs' = o1
         /\ conn' = c1
         /\ data' = d1

\* records fetch_vcap_services writes (lines 53-97)
ResolveRecords(c) ==
    IF c.t \in {"absent", "empty"} THEN 1
    ELSE IF c.t = "invalid" THEN 2
    ELSE IF ~c.hasHana THEN 3
    ELSE IF Len(c.hana) = 0 THEN 2
    ELSE IF fetch_body(c).exc # NoExc THEN 2
    ELSE 4

\* `from hdbcli import dbapi` finds the client in the vendor directory next
\* to the script (lines 16, 19)
hdbcli_importable(tgt) == "hdbcli" \in tgt.items[VENDOR].ch

\* lines 1-24, the module body: one record after the import, or two records
\* and sys.exit(1) on ImportError
Import ==
    /\ pc = "start"
    /\ IF hdbcli_importable(target)
       THEN LogStep(0, 1, "main", obs, conn, data)
       ELSE LogStep(0, 2, "exited", obs, conn, data)
    /\ UNCHANGED <<cat, iteration>> /\ UNCHANGED stagevars

\* the variables of the child's environment, as far as the environment is
\* modelled, whose name holds VCAP, DB, HANA or DATABASE (line 197)
MatchingVariables(e) ==
    (IF e.vcap.t # "absent" THEN {"VCAP_SERVICES"} ELSE {})
    \cup (IF e.flag THEN {"ENABLE_HANA_SIDECAR"} ELSE {})

\* records main() writes before its loop (lines 182-212)
PreambleRecords(e, tgt) ==
    5                                                       \* lines 182-188
    + (IF e.vcap.t # "absent" THEN 1                        \* line 192
       ELSE 2 + Cardinality(MatchingVariables(e)))          \* lines 194-198
    + 2                                                     \* lines 202-203
    + (IF Exists(tgt.items[VENDOR]) THEN 1 ELSE 0)          \* lines 205-210
    + 1                                                     \* line 212

\* main() up to `while True` (lines 182-215)
Preamble ==
    /\ pc = "main"
    /\ LogStep(0, PreambleRecords(env, target), "loop", obs, conn, data)
    /\ UNCHANGED <<cat, iteration>> /\ UNCHANGED stagevars

\* lines 216-218: iteration += 1 and the "--- Iteration n ---" record
LoopIter ==
    /\ pc = "loop"
    /\ iteration < MaxIter
    /\ iteration' = iteration + 1
    /\ LogStep(0, 1, "resolve",
               [Obs0 EXCEPT !.prevFail = obs.fail, !.prevSlept = obs.slept],
               "none", <<>>)
    /\ UNCHANGED cat /\ UNCHANGED stagevars

\* lines 102-106: connection_info = fetch_vcap_services()
Resolve ==
    /\ pc = "resolve"
    /\ LET r == fetch_vcap_services(cat)
           o1 == [obs EXCEPT !.info = r.info, !.resolveExc = r.exc, !.exc = r.exc]
       IN  IF r.exc # NoExc
           THEN LogStep(ResolveRecords(cat), 0, "log_data",
                        [o1 EXCEPT !.fail = "resolve"], conn, <<>>)
           ELSE IF ~r.info.ok
           THEN LogStep(ResolveRecords(cat) + 1, 0, "log_data",
                        [o1 EXCEPT !.fail = "resolve", !.ret = <<>>],
                        conn, <<>>)
           ELSE LogStep(ResolveRecords(cat), 0, "connect", o1, conn, <<>>)
    /\ UNCHANGED <<cat, iteration>> /\ UNCHANGED stagevars

\* lines 108-111: conn = establish_connection(**connection_info)
Connect ==
    /\ pc = "connect"
    /\ \E outcome \in CallOutcomes :
         LET exc == establish_connection_exc(outcome) IN
         IF outcome = "ok"
         THEN LogStep(1, 1, "discover",
                      [obs EXCEPT !.opened = @ + 1], "open", <<>>)
         ELSE IF exc # NoExc
         THEN LogStep(1, 1, "log_data",
                      [obs EXCEPT !.fail = "connect", !.exc = exc], conn, <<>>)
         ELSE LogStep(1, 2, "log_data",
                      [obs EXCEPT !.fail = "connect", !.ret = <<>>],
                      conn, <<>>)
    /\ UNCHANGED <<cat, iteration>> /\ UNCHANGED stagevars

\* lines 113-120: the cursor (line 114), the "Checking available tables..."
\* record, the table listing and its record; a failure of conn.cursor() or of
\* the listing goes to the handlers of lines 151-156, which write one record
Discover ==
    /\ pc = "discover"
    /\ \E outcome \in CallOutcomes : \E call \in {"cursor", "listing"} :
         IF outcome = "ok"
         THEN /\ call = "listing"
              /\ LogStep(1, 1, "variants", obs, conn, <<>>)
         ELSE LogStep(IF call = "cursor" THEN 0 ELSE 1, 1, "finally",
                      [obs EXCEPT !.fail = IF call = "cursor" THEN "cursor"
                                          ELSE "discover",
                                  !.ret = <<>>,
                                  !.exc = probe_exc(outcome)], conn, <<>>)
    /\ UNCHANGED <<cat, iteration>> /\ UNCHANGED stagevars

\* lines 130-140: one pass of `for table_name in table_variants`
TryVariant ==
    /\ pc = "variants"
    /\ \E outcome \in CallOutcomes : \E n \in 0..MaxRows :
         LET i == Len(obs.tried) + 1
             table_name == table_variants[i]
             users_data == Rows(table_name, n)
             o1 == [obs EXCEPT !.tried = Append(@, [table |-> table_name,
                                                    outcome |-> outcome])]
         IN  IF outcome = "ok"
             THEN IF users_data # <<>>
                  THEN LogStep(1, 1, "finally",
                               [o1 EXCEPT !.ret = users_data], conn, <<>>)
                  ELSE LogStep(1, 1, "fallback",
                               [o1 EXCEPT !.fail = "notfound"], conn, <<>>)
             ELSE /\ n = 0
                  /\ IF variant_exc(outcome) = NoExc
                     THEN IF i < Len(table_variants)
                          THEN LogStep(1, 1, "variants", o1, conn, <<>>)
                          ELSE LogStep(1, 1, "fallback",
                                       [o1 EXCEPT !.fail = "notfound"], conn, <<>>)
                     ELSE LogStep(1, 1, "finally",
                                  [o1 EXCEPT !.fail = "variant", !.ret = <<>>,
                                             !.exc = probe_exc(variant_exc(outcome))],
                                  conn, <<>>)
    /\ UNCHANGED <<cat, iteration>> /\ UNCHANGED stagevars

\* lines 142-149: `if not users_data`, the CURRENT_USER query
Fallback ==
    /\ pc = "fallback"
    /\ \E outcome \in CallOutcomes :
         IF outcome = "ok"
         THEN LogStep(1, 1, "finally", [obs EXCEPT !.ret = <<>>], conn, <<>>)
         ELSE LogStep(1, 1, "finally",
                      [obs EXCEPT !.fail = "fallback", !.ret = <<>>,
                                  !.exc = probe_exc(outcome)], conn, <<>>)
    /\ UNCHANGED <<cat, iteration>> /\ UNCHANGED stagevars

\* the state of the connection after conn.close() returned or raised
closed_conn(outcome) == IF outcome = "ok" THEN "closed" ELSE "close_failed"

\* a finally clause that calls conn.close() outside any try
close_connection_noexcept(o, outcome) ==
    LET closeExc == IF outcome = "ok" THEN NoExc ELSE outcome
    IN  [obs |-> [o EXCEPT !.closes = @ + 1, !.closeExc = closeExc,
                           !.exc = IF closeExc # NoExc THEN closeExc ELSE @],
         conn |-> closed_conn(outcome)]

\* a probe that closes at the end of the try body instead of in a finally
\* clause: a failed probe returns without closing
close_connection_on_success(o, outcome) ==
    IF o.fail \in {"cursor", "discover", "variant", "fallback"}
    THEN [obs |-> o, conn |-> "open"]
    ELSE LET closeExc == IF outcome = "ok" THEN NoExc ELSE TryExceptException(outcome)
         IN  [obs |-> [o EXCEPT !.closes = @ + 1, !.closeExc = closeExc,
                                !.exc = IF closeExc # NoExc THEN closeExc ELSE @],
              conn |-> closed_conn(outcome)]

\* lines 158-163: conn.close() inside try/except Exception
close_connection(o, outcome) ==
    LET closeExc == IF outcome = "ok" THEN NoExc ELSE TryExceptException(outcome)
    IN  [obs |-> [o EXCEPT !.closes = @ + 1, !.closeExc = closeExc,
                           !.exc = IF closeExc # NoExc THEN closeExc ELSE @],
         conn |-> closed_conn(outcome)]

\* lines 157-163: the finally clause, then the return to log_data
Finally ==
    /\ pc = "finally"
    /\ \E outcome \in CallOutcomes :
         LET r == close_connection(obs, outcome)
         IN  LogStep(0, 1, "log_data", r.obs, r.conn, obs.ret)
    /\ UNCHANGED <<cat, iteration>> /\ UNCHANGED stagevars

\* lines 166-177 and 219-228: log_data() reports, then main() sleeps
LogData ==
    /\ pc = "log_data"
    /\ LET reported == IF obs.exc # NoExc THEN 1
                       ELSE IF data # <<>> THEN 1 + Len(data) ELSE 1
           exc == log_data_exc(obs.exc)
           secs == sleep_after(exc)
       IN  IF secs = 300
           THEN LogStep(reported + 1, 0, "sleep300",
                        [obs EXCEPT !.exc = exc, !.slept = secs], conn, data)
           ELSE LogStep(reported + 2, 0, "sleep60",
                        [obs EXCEPT !.exc = exc, !.slept = secs], conn, data)
    /\ UNCHANGED <<cat, iteration>> /\ UNCHANGED stagevars

\* time.sleep returns
Wake ==
    /\ pc \in {"sleep300", "sleep60"}
    /\ pc' = "loop"
    /\ UNCHANGED <<cat, iteration, pipe, conn, data, obs>> /\ UNCHANGED stagevars

\* a place where the process can be when SIGINT arrives: `w` records written
\* and `inc` increments of `iteration` done since the last step ended, the
\* connection and the observations there,
\* `guarded` when the finally clause of get_data_from_db will still close the
\* connection, `crash` when the place is outside the try of lines 216-221
InterruptPoint(w, inc, c, o, guarded, crash) ==
    [w |-> w, inc |-> inc, conn |-> c, obs |-> o, guarded |-> guarded,
     crash |-> crash]

\* the places between the current state and the end of the step that starts
\* here.  The module body, main() before its loop, the jump back to
\* `while True` and the sleep of line 228 are outside the try; dbapi.connect
\* (line 108) and the first line of the finally clause are outside the
\* try/finally of lines 113-163.
InterruptPoints ==
    CASE pc = "start" ->
            {InterruptPoint(w, 0, conn, obs, FALSE, TRUE) :
                w \in 0..(IF hdbcli_importable(target) THEN 1 ELSE 2)}
      [] pc = "main" ->
            {InterruptPoint(w, 0, conn, obs, FALSE, TRUE) :
                w \in 0..PreambleRecords(env, target)}
      [] pc = "loop" ->
            \* the jump to `while True` (line 215); `try:` before and after
            \* `iteration += 1` (line 217), the record of line 218 unwritten
            {InterruptPoint(0, 0, conn, obs, FALSE, TRUE)}
            \cup {InterruptPoint(0, inc, conn, obs, FALSE, FALSE) :
                    inc \in 0..(IF iteration < MaxIter THEN 1 ELSE 0)}
      [] pc = "resolve" ->
            {InterruptPoint(w, 0, conn, obs, FALSE, FALSE) :
                w \in 0..(ResolveRecords(cat)
                          + IF fetch_vcap_services(cat).info.ok THEN 0 ELSE 1)}
      [] pc = "connect" ->
            \* lines 30-37, 109-111: record, dbapi.connect, record; the
            \* connection exists from the return of dbapi.connect on
            {InterruptPoint(w, 0, conn, obs, FALSE, FALSE) : w \in 0..3}
            \cup {InterruptPoint(w, 0, "open", [obs EXCEPT !.opened = @ + 1],
                                 FALSE, FALSE) : w \in 1..2}
      [] pc = "discover" ->
            {InterruptPoint(0, 0, conn, obs, FALSE, FALSE)}
            \cup {InterruptPoint(w, 0, conn, obs, TRUE, FALSE) : w \in 0..2}
      [] pc \in {"variants", "fallback"} ->
            {InterruptPoint(w, 0, conn, obs, TRUE, FALSE) : w \in 0..2}
      [] pc = "finally" ->
            \* the end of the try body; the finally clause before conn.close();
            \* after conn.close() returned or raised, before or after its record
            {InterruptPoint(0, 0, conn, obs, TRUE, FALSE),
             InterruptPoint(0, 0, conn, obs, FALSE, FALSE)}
            \cup {InterruptPoint(w, 0, close_connection(obs, outcome).conn,
                                 close_connection(obs, outcome).obs, FALSE, FALSE) :
                    w \in 0..1, outcome \in CallOutcomes}
      [] pc = "log_data" ->
            {InterruptPoint(w, 0, conn, obs, FALSE, FALSE) :
                w \in 0..((IF obs.exc # NoExc THEN 1
                           ELSE IF data # <<>> THEN 1 + Len(data) ELSE 1) + 1)}
      [] pc = "sleep300" -> {InterruptPoint(0, 0, conn, obs, FALSE, FALSE)}
      [] pc = "sleep60" -> {InterruptPoint(0, 0, conn, obs, FALSE, TRUE)}
      [] OTHER -> {}

\* KeyboardInterrupt is raised where the process is, between two steps or
\* inside one.  Inside the try of get_data_from_db the finally clause closes
\* the connection and writes its record first.  Inside the try of main()
\* lines 222-224 write a record and leave the loop; anywhere else the process
\* dies of the exception.  A process blocked in a write is interrupted in it
\* and blocks again in the next write.
Interrupt ==
    /\ pc \notin {"none", "terminated", "crashed", "exited"}
    /\ ~obs.intr
    /\ IF pc = "blocked"
       THEN \E outcome \in CallOutcomes :
              LET o1 == [obs EXCEPT !.intr = TRUE, !.intrAt = "blocked"]
                  closes == /\ conn = "open"
                            /\ obs.blockedAt \in {"discover", "variants", "fallback"}
                  cl == close_connection(o1, outcome)
              IN  /\ closes \/ (outcome = "ok")
                  /\ obs' = IF closes THEN [cl.obs EXCEPT !.exc = obs.exc] ELSE o1
                  /\ conn' = IF closes THEN cl.conn ELSE conn
                  /\ UNCHANGED <<pc, pipe, data, iteration>>
       ELSE \E p \in InterruptPoints : \E outcome \in CallOutcomes :
              LET o1 == [p.obs EXCEPT !.intr = TRUE,
                                      !.intrAt = IF pc = "loop" /\ p.crash
                                                 THEN "jump" ELSE pc]
                  cl == close_connection(o1, outcome)
                  o2 == IF p.guarded THEN [cl.obs EXCEPT !.exc = obs.exc] ELSE o1
                  c2 == IF p.guarded THEN cl.conn ELSE p.conn
              IN  /\ pipe + p.w <= PipeCap
                  /\ p.guarded \/ (outcome = "ok")
                  /\ iteration' = iteration + p.inc
                  /\ IF p.crash
                     THEN /\ pc' = "crashed"
                          /\ pipe' = pipe + p.w
                          /\ obs' = o1
                          /\ conn' = p.conn
                          /\ UNCHANGED data
                     ELSE LogStep(p.w, IF p.guarded THEN 2 ELSE 1, "terminated",
                                  o2, c2, data)
    /\ UNCHANGED cat /\ UNCHANGED stagevars

\* an installed sidecar root with the entries `ch` in its vendor directory
InstalledWith(ch) ==
    [exists |-> TRUE,
     items |-> [n \in Names |->
                  CASE n = BINARY -> FileNode(Blob(1), "0755")
                    [] n = VENDOR -> DirNode(ch)
                    [] OTHER -> NoNode]]

\* the installed sidecar root the child was started from
InstalledTarget == InstalledWith(ChildNames)

\* an install the verifier accepts, with nothing in its vendor directory
InstalledNoClient == InstalledWith({})

\* the child right after run() spawned it with a copy of the environment
\* (metering.py:312-324), before the first line of sidecar.py
LoopInit ==
    /\ env \in {[vcap |-> c, mxums |-> FALSE, flag |-> TRUE] : c \in Catalogs}
    /\ src = NoDirectory
    /\ target \in {InstalledTarget, InstalledNoClient}
    /\ meta = MetaMissing
    /\ procs = 1
    /\ last = Last("run", NoExc, TRUE, FALSE, TRUE, TRUE, TRUE)
    /\ cat = env.vcap
    /\ pc = "start"
    /\ iteration = 0
    /\ pipe = 0
    /\ conn = "none"
    /\ data = <<>>
    /\ obs = Obs0

LoopStep ==
    \/ Import
    \/ Preamble
    \/ LoopIter
    \/ Resolve
    \/ Connect
    \/ Discover
    \/ TryVariant
    \/ Fallback
    \/ Finally
    \/ LogData
    \/ Wake

LoopNext ==
    \/ Import
    \/ Preamble
    \/ LoopIter
    \/ Resolve
    \/ Connect
    \/ Discover
    \/ TryVariant
    \/ Fallback
    \/ Finally
    \/ LogData
    \/ Wake
    \/ Interrupt

LoopSpec == LoopInit /\ [][LoopNext]_vars

\* the process is scheduled and sleeps and database calls return
LoopLive == LoopSpec /\ WF_vars(LoopStep)

-----------------------------------------------------------------------------
(* run() and the child it starts, side by side *)

\* a run() that waits for the child after starting it (process.wait())
run_returns_after_wait(childPc) == childPc \in {"terminated", "crashed"}

\* lines 316-324: after Popen returned, run() logs the PID and returns; it
\* makes no call that waits for the child or reads its pipes
run_returns(childPc) == TRUE

\* run() up to and including subprocess.Popen: the child exists from here on,
\* with the environment _set_up_environment() built, before the first line of
\* sidecar.py.
\* A run() that does not spawn has returned.
RunPopen ==
    /\ last.op = "init"
    /\ procs < MaxProcs
    /\ \E F \in RunFaults :
        LET r == run(env, target, F)
        IN  IF r.spawned
            THEN /\ procs' = procs + 1
                 /\ last' = Last("popen", r.raised, r.enabled, FALSE, r.installed,
                                  TRUE, F = NoFaults)
                 /\ cat' = set_up_environment(env, target, F).vcap
                 /\ pc' = "start"
                 /\ obs' = Obs0
                 /\ UNCHANGED <<iteration, pipe, conn, data>>
            ELSE /\ last' = Last("run", r.raised, r.enabled, FALSE, r.installed,
                                  FALSE, F = NoFaults)
                 /\ UNCHANGED procs /\ UNCHANGED loopvars
    /\ UNCHANGED <<env, src, target, meta>>

\* line 324 and the return of run()
RunReturn ==
    /\ last.op = "popen"
    /\ run_returns(pc)
    /\ last' = [last EXCEPT !.op = "run"]
    /\ UNCHANGED <<env, src, target, meta, procs>> /\ UNCHANGED loopvars

\* the application start: an environment, an install root that is complete
\* or missing, no child yet
SysInit ==
    /\ env \in {[vcap |-> c, mxums |-> FALSE, flag |-> f] :
                    c \in Catalogs, f \in BOOLEAN}
    /\ src = NoDirectory
    /\ target \in {InstalledTarget, InstalledNoClient, NoDirectory}
    /\ meta = MetaMissing
    /\ procs = 0
    /\ last = Last("init", NoExc, FALSE, FALSE, FALSE, FALSE, TRUE)
    /\ NoSidecar

SysNext ==
    \/ RunPopen
    \/ RunReturn
    \/ Import
    \/ Preamble
    \/ LoopIter
    \/ Resolve
    \/ Connect
    \/ Discover
    \/ TryVariant
    \/ Fallback
    \/ Finally
    \/ LogData
    \/ Wake
    \/ Interrupt

SysSpec == SysInit /\ [][SysNext]_vars

\* the supervisor's thread is scheduled; nothing is assumed about the child
SysLive == SysSpec /\ WF_vars(RunPopen) /\ WF_vars(RunReturn)

-----------------------------------------------------------------------------
(* Claims about the build and start phases *)

\* what the specification calls the enablement signals, read off the environment:
\* the catalog has the key "hana", or one of the two variables is set
HasHanaKey(v) == v.t = "object" /\ v.hasHana
NoSignal(e) == ~HasHanaKey(e.vcap) /\ ~e.mxums /\ ~e.flag

\* the install location holds the entry script and the vendor directory
ScriptAndVendor(tgt) ==
    tgt.exists /\ Exists(tgt.items[BINARY]) /\ Exists(tgt.items[VENDOR])

\* C1: in an environment without any enablement signal no call changes the
\* target directory (stage writes nothing) and none spawns a process (run),
\* whatever the bundle source and the install root hold.
C1_NoSignalNoEffect ==
    [][NoSignal(env) => (target' = target /\ procs' = procs)]_vars

\* stage() was called without a signal on a bundle it could have installed
C1_Witness ==
    /\ last.op = "stage" /\ NoSignal(env)
    /\ src.exists /\ Exists(src.items[BINARY]) /\ Exists(src.items[VENDOR])
    /\ ~target.exists

\* C2: run() spawns only when it found enablement and the Install Verifier
\* true; the verifier is true iff entry script and vendor directory exist;
\* with the vendor directory missing it is false and nothing is spawned.
C2_SpawnOnlyEnabledAndInstalled ==
    last.op = "run" =>
        /\ last.spawned => (~NoSignal(env) /\ ScriptAndVendor(target))
        /\ last.installed <=> ScriptAndVendor(target)
        /\ ~Exists(target.items[VENDOR]) => (~last.installed /\ ~last.spawned)

C2_Witness ==
    /\ last.op = "run" /\ last.spawned /\ procs = 1

\* C3: neither stage() nor run() lets an exception reach its caller, whichever
\* step inside fails.
C3_NeverRaises == last.raised = NoExc

\* a successful copy whose config step failed on the missing metadata
C3_Witness ==
    /\ last.op = "stage" /\ last.success /\ meta = MetaMissing

\* C9: after a stage() in which no call failed, staging again with the same
\* environment, source and metadata leaves the target directory as it is.
C9_StageIdempotent ==
    (last.op = "stage" /\ last.faultfree) =>
        \A order \in Orders(src, NoFaults) :
            stage(env, src, target, meta, NoFaults, order).target = target

C9_Witness ==
    /\ last.op = "stage" /\ last.faultfree /\ last.success
    /\ ScriptAndVendor(target)
    /\ target.items[SIDECAR_CONFIG_FILE].c = Cfg(1)

\* C10: after a successful stage the entry script exists and is executable and
\* the vendor directory exists and is not empty; and wherever that does not hold
\* the Install Verifier returns false.
InstallInvariant(tgt) ==
    /\ ScriptAndVendor(tgt)
    /\ tgt.items[BINARY].m = "0755"
    /\ tgt.items[VENDOR].ch # {}

C10_SuccessfulStageIsComplete ==
    last.op = "stage" =>
        /\ last.success => InstallInvariant(target)
        /\ ~InstallInvariant(target) => ~is_sidecar_installed(target)

\* C11: a stage() with enablement true and no bundle source directory does
\* not raise and leaves the target as it was: no directory created, nothing
\* copied, no config file written, whatever the build metadata holds.
C11_MissingSourceUntouched ==
    [][(last'.op = "stage" /\ is_usage_metering_enabled(env) /\ ~src.exists)
          => (target' = target /\ last'.raised = NoExc /\ ~last'.success)]_vars

\* staged without a source, with a ProjectID at hand and no target directory
C11_Witness ==
    /\ last.op = "stage" /\ last.enabled /\ ~src.exists
    /\ meta = MetaOk(1) /\ ~target.exists

\* C13: each signal enables on its own: the key "hana" in the parsed
\* VCAP_SERVICES, MXUMS_LICENSESERVER_URL, or ENABLE_HANA_SIDECAR; a
\* VCAP_SERVICES value that does not parse leaves the two variables their
\* effect, and the evaluation raises nothing.
C13_AnySignalEnables ==
    last.op \in {"stage", "run"} =>
        /\ (HasHanaKey(env.vcap) \/ env.mxums \/ env.flag) => last.enabled
        /\ last.raised = NoExc

\* enabled by ENABLE_HANA_SIDECAR alone while VCAP_SERVICES does not parse
C13_Witness ==
    /\ last.op = "stage" /\ last.enabled
    /\ env.vcap = VcapInvalid /\ env.flag /\ ~env.mxums

\* C17: after a stage() that staged the bundle, conf.json is in the target
\* iff the build metadata gave a ProjectID: without one the target holds no
\* conf.json, whatever an earlier stage or the source bundle put there; with
\* one (and the write not failing) it holds that ProjectID.
C17_ConfigIffProjectID ==
    (last.op = "stage" /\ last.success) =>
        /\ meta.t # "ok" => ~Exists(target.items[SIDECAR_CONFIG_FILE])
        /\ (meta.t = "ok" /\ last.faultfree) =>
              target.items[SIDECAR_CONFIG_FILE].c = Cfg(meta.pid)

\* the entry `name` of the target is the one of the source: same kind, same
\* bytes, same children; conf.json may instead be the config this stage wrote
Mirrored(name) ==
    \/ /\ target.items[name].k = src.items[name].k
       /\ target.items[name].c = src.items[name].c
       /\ target.items[name].ch = src.items[name].ch
    \/ /\ name = SIDECAR_CONFIG_FILE /\ meta.t = "ok"
       /\ target.items[name].c = Cfg(meta.pid)

\* C18: after a successful stage() every non-hidden entry of the source is in
\* the target with the source's content, a directory that was already there
\* holds exactly the source's entries, and no hidden entry was copied.
C18_TargetMirrorsSource ==
    (last.op = "stage" /\ last.success) =>
        /\ \A name \in Names :
              (~IsHidden(name) /\ Exists(src.items[name])) => Mirrored(name)
        /\ \A name \in Names : IsHidden(name) => ~Exists(target.items[name])

\* a stage() with the failing call F and the listing order `order` reaches the
\* copy loop and leaves it because the copy of the vendor directory failed
VendorCopyAborts(F, order) ==
    /\ is_usage_metering_enabled(env) /\ src.exists
    /\ ~Fails(F, "listdir", "-") /\ ~Fails(F, "makedirs", "-")
    /\ CopyLoop(target.items, src.items, order, 1, F).aborted

\* the step is a stage() with the failing call F and the listing order `order`
StagedWith(F, order) ==
    /\ last'.op = "stage" /\ ~last'.success
    /\ target' = stage(env, src, target, meta, F, order).target

\* the stage wrote no config: conf.json is the one that was there, or no
\* ProjectID document at all
NoConfigWritten ==
    \/ target'.items[SIDECAR_CONFIG_FILE] = target.items[SIDECAR_CONFIG_FILE]
    \/ target'.items[SIDECAR_CONFIG_FILE].c.t # "cfg"

\* C21: a stage() that aborts because the copy of the vendor directory failed
\* writes no conf.json and leaves a target on which _is_sidecar_installed()
\* returns False, whatever the target held before and wherever the copy failed.
C21_AbortedInstallNotLaunched ==
    [][\A F \in StageFaults(env, src, target) : \A order \in Orders(src, F) :
          (VendorCopyAborts(F, order) /\ StagedWith(F, order)) =>
              (NoConfigWritten /\ ~is_sidecar_installed(target'))]_vars

\* C19: once Popen has started the child, run() returns, whatever the child
\* does or fails to do; and a run() that started no child (the spawn failed,
\* or nothing was to be started) has returned without an exception and
\* without a process.
C19_FireAndForget ==
    /\ (last.op = "popen") ~> (last.op = "run")
    /\ []((last.op = "run" /\ ~last.spawned) =>
            (last.raised = NoExc /\ procs = 0 /\ pc = "none"))

\* run() has returned and the child has not taken a step yet
C19_Witness ==
    /\ last.op = "run" /\ last.spawned /\ procs = 1
    /\ pc = "start" /\ iteration = 0 /\ pipe = 0

-----------------------------------------------------------------------------
(* Claims about the sidecar process *)

Sleeping == pc \in {"sleep300", "sleep60"}
Ended == pc \in {"terminated", "crashed"}

\* C4: no data, credential or connection error ends the loop: it ends only
\* after an interruption, and as long as none is delivered every iteration n
\* is eventually followed by iteration n+1.
C4_LoopKeepsIterating ==
    /\ [](Ended => obs.intr)
    /\ \A n \in 1..(MaxIter - 1) :
         (iteration = n /\ ~Ended) ~> (iteration = n + 1 \/ obs.intr)

\* C5: an iteration in which opening the connection threw is followed by the
\* 60 second backoff, not by the regular 300 second sleep, and the iteration
\* after it starts from there.
C5_ConnectFailureBacksOff ==
    /\ (Sleeping /\ obs.fail = "connect") => (pc = "sleep60" /\ obs.slept = 60)
    /\ obs.prevFail = "connect" => obs.prevSlept = 60

\* C6: when the probe has returned, close was called exactly once on the
\* connection it opened (never on one it did not open), whichever step
\* failed, and no exception of close left the probe.
C6_ConnectionReleased ==
    /\ obs.opened <= 1
    /\ obs.closes <= obs.opened
    /\ (pc = "log_data" \/ Sleeping) =>
          (obs.closes = obs.opened /\ obs.closeExc = NoExc /\ obs.exc = NoExc)
    /\ (pc = "log_data" \/ Sleeping) => conn # "open"

\* the fallback query raised and then close raised too
C6_Witness ==
    /\ pc = "log_data" /\ obs.opened = 1 /\ obs.closes = 1
    /\ obs.fail = "fallback" /\ conn = "close_failed"

\* C7: the variants are tried in the listed order; the probe returns the rows
\* of the first variant whose query succeeds and tries none after it; when
\* none succeeds all four were tried, whatever the kind of each failure, and
\* the probe returns the empty sequence.
C7_FirstSuccessfulVariant ==
    (pc = "log_data" /\ obs.tried # <<>>) =>
        LET tried == obs.tried
            succeeded == {i \in DOMAIN tried : tried[i].outcome = "ok"}
        IN  /\ Len(tried) <= Len(table_variants)
            /\ \A i \in DOMAIN tried : tried[i].table = table_variants[i]
            /\ succeeded # {} =>
                  /\ succeeded = {Len(tried)}
                  /\ data = Rows(table_variants[Len(tried)], Len(data))
            /\ succeeded = {} =>
                  /\ data = <<>>
                  /\ Len(tried) = Len(table_variants)

\* catalogs from which no connection parameters can be resolved
Unresolvable(c) ==
    \/ c.t \in {"absent", "empty", "invalid"}
    \/ ~c.hasHana
    \/ c.hana = <<>>
    \/ ~c.hana[1].hasCreds
    \/ \E f \in CredFields : c.hana[1].creds[f] = JMissing

\* C8: with such a catalog the resolver returns None without raising, the
\* iteration opens no connection, and it ends in the regular sleep with no
\* exception having reached the loop (an interruption apart).
C8_UnresolvableCatalog ==
    (Unresolvable(cat) /\ iteration >= 1) =>
        /\ pc \notin {"loop", "resolve", "blocked", "terminated"} =>
              (obs.info = NoInfo /\ obs.resolveExc = NoExc /\ obs.fail = "resolve")
        /\ pc \notin {"connect", "discover", "variants", "fallback", "finally"}
        /\ obs.opened = 0 /\ conn = "none"
        /\ obs.exc = NoExc /\ pc # "sleep60" /\ (pc = "crashed" => obs.intr)

\* the first binding lacks the password; the iteration has ended in its sleep
C8_Witness ==
    /\ cat = VcapHana(<<Binding(CredsWithout("password"))>>)
    /\ pc = "sleep300" /\ iteration = 1 /\ obs.fail = "resolve"

\* the places of the poll loop where the process can be interrupted: the
\* iteration body with the database round-trip, and the two sleeps
PollLoopPoints ==
    {"loop", "resolve", "connect", "discover", "variants", "fallback",
     "finally", "log_data", "sleep300", "sleep60"}

\* C12: once an interruption was delivered in the iteration body, during the
\* database round-trip or in one of the two sleeps, main() has returned
\* through its KeyboardInterrupt handler (so no further iteration starts) and
\* the connection of the iteration, if one was opened, is closed.
C12_InterruptEndsCleanly ==
    (obs.intr /\ obs.intrAt \in PollLoopPoints) =>
        (pc = "terminated" /\ conn \in {"none", "closed"})

\* the first binding record has all four credentials
CompleteFirst(c) ==
    /\ c.t = "object" /\ c.hasHana /\ Len(c.hana) >= 1 /\ c.hana[1].hasCreds
    /\ \A f \in CredFields : c.hana[1].creds[f] # JMissing

\* the decimal digits of a natural number
RECURSIVE DecimalOf(_)
DecimalOf(n) ==
    IF n < 10 THEN <<Digits[n + 1]>>
    ELSE Append(DecimalOf(n \div 10), Digits[(n % 10) + 1])

\* the port is an integer, or a string that is the decimal form of one
IntegerPort(port, n) ==
    \/ port.ty = "num" /\ port.n = n
    \/ port.ty = "str" /\ port.s = DecimalOf(n)

\* the port is a number or a non-empty string of decimal digits
HasIntegerValue(port) ==
    \/ port.ty = "num"
    \/ /\ port.ty = "str" /\ port.s # <<>>
       /\ \A i \in DOMAIN port.s : \E d \in DOMAIN Digits : Digits[d] = port.s[i]

\* C14: with complete credentials in the first binding record the resolver
\* returns host, the integer value of port, user and password of that record,
\* the same as if the later records were not there; a port that is no
\* integer gives no parameters, and no exception leaves the resolver.
C14_FirstRecordOnly ==
    (/\ CompleteFirst(cat) /\ iteration >= 1
     /\ pc \notin {"loop", "resolve", "blocked", "terminated"}) =>
        LET credentials == cat.hana[1].creds IN
        /\ obs.resolveExc = NoExc
        /\ obs.info = fetch_vcap_services(VcapHana(<<cat.hana[1]>>)).info
        /\ IF HasIntegerValue(credentials["port"])
           THEN /\ obs.info.ok
                /\ obs.info.address = credentials["host"]
                /\ IntegerPort(credentials["port"], obs.info.port)
                /\ obs.info.user = credentials["user"]
                /\ obs.info.password = credentials["password"]
           ELSE obs.info = NoInfo /\ obs.fail = "resolve"

\* two binding records, resolved from the first
C14_Witness ==
    /\ cat = VcapHana(<<Binding(GoodCreds(Port30015)), Binding(OtherCreds)>>)
    /\ pc = "connect" /\ obs.info.ok /\ obs.info.port = 30015

\* C15: a probe whose table listing failed has still gone through the table
\* variants when it returns, and returns the rows of the variant that
\* succeeded.
C15_DiscoveryFailureNonFatal ==
    (pc = "log_data" /\ obs.fail = "discover") =>
        /\ obs.tried # <<>>
        /\ \A i \in DOMAIN obs.tried :
              obs.tried[i].outcome = "ok" => data = Rows(obs.tried[i].table, Len(data))

\* C16: a connection belongs to one iteration: at most one is opened per
\* iteration, none is open at the start of an iteration or while the loop
\* sleeps (the connection of the iteration, if any, is closed: a close() that
\* raised has not closed it), and the queries of an iteration run on the
\* connection opened in it.
C16_ConnectionWithinIteration ==
    /\ obs.opened <= 1
    /\ conn = "open" => obs.opened = 1
    /\ (Sleeping \/ pc \in {"loop", "resolve", "connect"}) =>
          conn \in {"none", "closed"}
    /\ pc \in {"discover", "variants", "fallback", "finally"} =>
          (conn = "open" /\ obs.opened = 1 /\ obs.closes = 0)

\* C16, with a close() that raised set apart: at most one connection is opened
\* per iteration; at the start of an iteration and while the loop sleeps the
\* connection of the iteration, if any, is closed or close() was called on it
\* once and raised; and the queries of an iteration run on the connection
\* opened in it.
C16_ConnectionGivenUpWithinIteration ==
    /\ obs.opened <= 1
    /\ conn = "open" => obs.opened = 1
    /\ (Sleeping \/ pc \in {"loop", "resolve", "connect"}) =>
          \/ conn \in {"none", "closed"}
          \/ conn = "close_failed" /\ obs.opened = 1 /\ obs.closes = 1
    /\ pc \in {"discover", "variants", "fallback", "finally"} =>
          (conn = "open" /\ obs.opened = 1 /\ obs.closes = 0)

\* the second iteration opened and closed a connection of its own
C16_Witness ==
    /\ pc = "sleep300" /\ iteration = 2 /\ obs.prevFail = "none"
    /\ obs.opened = 1 /\ obs.closes = 1 /\ conn = "closed" /\ data # <<>>

\* C20: the child never waits for the supervisor: no write of a log record
\* to its standard output blocks, although run() attached that output to a
\* pipe and has returned without ever reading it.
C20_NoWriteBlocks ==
    pc # "blocked"

=============================================================================
